---- MODULE Spec2Model ----
(***************************************************************************)
(* Model of the xero-auth privilege daemon (xero-auth/src/daemon.rs):      *)
(* the accept loop of run_daemon, the parent monitor, the signal task,     *)
(* the per-connection loop of handle_client and the pty executor           *)
(* (execute_command / read_pty_output), together with the clients and      *)
(* children that drive them.                                               *)
(***************************************************************************)
EXTENDS Integers, Sequences, FiniteSets, TLC

\* ------------------------------------------------------------------ bounds
MaxConns == 2      \* client connections that may be opened
MaxSends == 2      \* client lines sent over all connections
MaxCmds  == 2      \* children forked over all connections
MaxLines == 1      \* lines one child writes to its pty
MaxDaemons == 2    \* daemon processes started for the one uid
PollLimit == 2     \* polls of start_daemon until its timeout has elapsed
MaxResp == 3       \* responses a client reads before its stream ends
MaxWireLines == 3  \* WireSpec: lines the child writes to its pty
FrameParts == 2    \* WireSpec: pieces a frame may reach the socket in

Conns == 1..MaxConns
Pids  == 1..MaxCmds
Daemons == 1..MaxDaemons

None == "None"

\* ------------------------------------------------------------------ wire
\* Lines a client may put on the socket: the three encodings of
\* ClientMessage, and a line that is not a ClientMessage.
ClientLines == {"\"Ping\"", "\"Shutdown\"", "{\"Execute\":{}}", "garbage"}

\* serde_json::from_str(line.trim()): the variant, or a parse error.
Decode(text) ==
    CASE text = "\"Ping\""          -> "Ping"
      [] text = "\"Shutdown\""      -> "Shutdown"
      [] text = "{\"Execute\":{}}"  -> "Execute"
      [] OTHER                      -> "ParseError"

Pong        == [type |-> "Pong"]
ShutdownAck == [type |-> "ShutdownAck"]
ErrorMessage(text) == [type |-> "ErrorMessage", text |-> text]
\* An Output frame carries the line read from the pty of child pid.
Output(item) == [type |-> "Output", pid |-> item[1], line |-> item[2]]
\* A Completed frame carries the exit code computed for child pid.
Completed(pid, code) == [type |-> "Completed", pid |-> pid, exit_code |-> code]
\* DaemonMessage::Error: a line of the command's error output.
Error(item) == [type |-> "Error", pid |-> item[1], line |-> item[2]]
\* The requests as the client library builds them; env is the list of
\* KEY=VALUE entries.
ExecuteRequest(env) == [type |-> "Execute", env |-> env]
ShutdownRequest == [type |-> "Shutdown"]

\* ------------------------------------------------------------------ wait status
\* What may have become of a child when waitpid returns: exit(n), death by
\* signal n (with or without a core dump), or neither (stopped by signal n,
\* continued).
Fate(kind, n, core) == [kind |-> kind, n |-> n, core |-> core]

AllFates ==
    {Fate("exit", n, FALSE) : n \in 0..255}
      \cup {Fate("signal", n, core) : n \in 1..64, core \in BOOLEAN}
      \cup {Fate("stop", n, FALSE) : n \in {19, 20, 21, 22}}
      \cup {Fate("continued", 0, FALSE)}

\* The fates the children of Spec meet.
Fates == {Fate("exit", 3, FALSE), Fate("signal", 9, FALSE)}

\* The kernel's encoding of a fate in the int that waitpid fills in.
StatusOf(fate) ==
    CASE fate.kind = "exit"   -> fate.n * 256
      [] fate.kind = "signal" -> fate.n + (IF fate.core THEN 128 ELSE 0)
      [] fate.kind = "stop"   -> fate.n * 256 + 127
      [] OTHER                -> 65535

\* libc's macros over that int.
WIFEXITED(status)   == status % 128 = 0
WEXITSTATUS(status) == (status \div 256) % 256
WIFSIGNALED(status) == (status % 128) # 0 /\ (status % 128) # 127
WTERMSIG(status)    == status % 128

\* Mutant of ExitCodeOf: the signal number is returned as it is.
ExitCodeOfBareSignal(result, pid, status) ==
    IF result = pid
    THEN IF WIFEXITED(status) THEN WEXITSTATUS(status)
         ELSE IF WIFSIGNALED(status) THEN WTERMSIG(status)
         ELSE -1
    ELSE -1

\* The closure handed to spawn_blocking in read_pty_output: result is what
\* waitpid returned (the pid, or -1), status what it stored.
ExitCodeOf(result, pid, status) ==
    IF result = pid
    THEN IF WIFEXITED(status) THEN WEXITSTATUS(status)
         ELSE IF WIFSIGNALED(status) THEN 128 + WTERMSIG(status)
         ELSE -1
    ELSE -1

\* .await.unwrap_or(-1): the closure's value, or -1 when the blocking task
\* did not run to its end (a JoinError).
UnwrapOr(joined, code) == IF joined THEN code ELSE -1

\* ------------------------------------------------------------------ state
VARIABLES
    shutdown,     \* the AtomicBool shared by every task
    mainPc,       \* run_daemon: "select" (in the loop), "returned", "exited"
    socketFile,   \* the socket path exists
    parent_pid,   \* None or "Some": the --parent-pid argument
    parentAlive,  \* the launching process still runs
    cstate,       \* per connection: "idle", "pending", "await", "exec", "closed",
                  \*   "killed" (cancelled awaiting a line), "aborted" (cancelled
                  \*   inside execute_command)
    inbox,        \* per connection: the line sent and not yet read, or None
    peerOpen,     \* per connection: the client holds its end open
    out,          \* per connection: the frames written to it since that line
                  \*   was read, in order
    ex,           \* per connection: the state of read_pty_output
    child,        \* per pid: the forked child
    sends,        \* lines sent so far
    nextPid,      \* next pid fork will return
    waited,       \* WaitSpec: the last wait, its inputs and the exit code
    inst,         \* StartSpec: per daemon process, where it is in run_daemon
    sock,         \* StartSpec: the file at the socket path of the uid
    sup,          \* StartSpec: the call of start_daemon
    cli,          \* CliSpec: one call of the client library or of the CLI
    wire          \* WireSpec: one command's frames on the way to the socket

vars == << shutdown, mainPc, socketFile, parent_pid, parentAlive,
           cstate, inbox, peerOpen, out, ex, child, sends, nextPid, waited,
           inst, sock, sup, cli, wire >>

daemonVars == << shutdown, mainPc, socketFile >>
\* State of the components that the daemon's actions leave alone.
startVars  == << inst, sock, sup >>
elsewhere  == << waited, startVars, cli, wire >>
envVars    == << parent_pid, parentAlive, elsewhere >>
connVars   == << cstate, inbox, peerOpen, out, ex, sends >>
childVars  == << child, nextPid >>
mainVars   == << daemonVars, parent_pid, parentAlive, connVars, childVars >>

\* read_pty_output's state: where the handler is ("select", "wait"), the
\* child's pid, the blocking reader ("running", "gone") and the lines it has
\* read, the forwarding task ("running", "done", "gone") and the channel
\* between them.
NoExec  == [pc |-> "none", pid |-> 0, reader |-> "gone", lines |-> 0,
            fwd |-> "gone", chan |-> << >>]
NoWait  == [pid |-> 0, result |-> 0, fate |-> Fate("none", 0, FALSE),
            joined |-> FALSE, exit_code |-> 0]
\* A child: "none", "running", "exited", "reaped"; conn is the connection
\* whose handler forked it.
NoChild == [state |-> "none", conn |-> 0]
\* A daemon process: pc is "off", "pkexec", "check_old", "remove_old",
\* "mkdir", "bind", "perms", "listening", "returned", "failed" or "killed";
\* euid is its --uid argument; root is whether getuid() is 0; pw, chown and
\* mode are what set_socket_permissions met and set.
NoInst  == [pc |-> "off", euid |-> None, root |-> FALSE, pw |-> "none",
            chown |-> "none", mode |-> 0]
\* The socket path: owner is the daemon whose bind created the file (0:
\* there is no file), mode 0 is the mode bind left it with, dir is whether
\* the directory of the path exists.
NoFile  == [owner |-> 0, mode |-> 0, group |-> "root", dir |-> FALSE]
\* A result: Ok(code), Err(what), or none yet.
Ok(code)  == [kind |-> "Ok", code |-> code, what |-> ""]
Err(what) == [kind |-> "Err", code |-> 0, what |-> what]
NoResult  == [kind |-> "none", code |-> 0, what |-> ""]
\* A call: op is "none", "execute", "shutdown" or "main" (the CLI); pc is
\* "idle", "reading", "done" or "exited"; given is the stream the daemon's
\* side delivers (its messages and how it ends: "eof" or "err"), pos the
\* next message to read; sent the requests written, called the callbacks
\* invoked, exit_code the local Option (<< >> is None), status the exit
\* status of the CLI process (-1 while it runs), child_env the environment
\* of the child the daemon starts for the request (<< >>: none started),
\* link what the CLI found: "no_daemon", "no_connection" or "connected".
NoCall  == [op |-> "none", pc |-> "idle", given |-> [msgs |-> << >>, ending |-> "eof"],
            pos |-> 1, sent |-> << >>, called |-> << >>, exit_code |-> << >>,
            result |-> NoResult, status |-> -1, child_env |-> << >>,
            link |-> "none"]
\* read_pty_output and the Completed that follows it, seen at the socket:
\* pc is "select", "wait", "completing" or "returned"; reader is the
\* blocking pty reader ("running", "gone"), lines the lines it has read,
\* queue the channel; fwd is the forwarding task: "idle" (in rx.recv()),
\* "writing" (in write_all, holding the lock, with part parts of frame line
\* written), "done" or "gone" (dropped); lock is who holds the writer's
\* mutex; done is how many parts of Completed are written; bytes is what
\* has reached the socket, part by part.
NoWire  == [pc |-> "select", reader |-> "running", lines |-> 0, queue |-> << >>,
            fwd |-> "idle", line |-> 0, part |-> 0, lock |-> "free", done |-> 0,
            bytes |-> << >>]
\* start_daemon: "idle", "poll", "ok", "helper_exited", "timeout",
\* "spawn_failed"; running is what is_daemon_running() answered, helper
\* the daemon process pkexec was spawned for.
NoSup   == [pc |-> "idle", running |-> FALSE, helper |-> 0, polls |-> 0]

\* shared::is_process_running(pid)
is_process_running == parentAlive

Init ==
    /\ shutdown = FALSE
    /\ mainPc = "select"
    /\ socketFile = TRUE
    /\ parent_pid \in {None, "Some"}
    /\ parentAlive = TRUE
    /\ cstate = [c \in Conns |-> "idle"]
    /\ inbox = [c \in Conns |-> None]
    /\ peerOpen = [c \in Conns |-> TRUE]
    /\ out = [c \in Conns |-> << >>]
    /\ ex = [c \in Conns |-> NoExec]
    /\ child = [p \in Pids |-> NoChild]
    /\ sends = 0
    /\ nextPid = 1
    /\ waited = NoWait
    /\ inst = [d \in Daemons |-> NoInst]
    /\ sock = NoFile
    /\ sup = NoSup
    /\ cli = NoCall
    /\ wire = NoWire

Running == mainPc # "exited"
Listening == mainPc = "select"

\* ------------------------------------------------------------------ environment
ParentDies ==
    /\ parent_pid # None /\ parentAlive
    /\ parentAlive' = FALSE
    /\ UNCHANGED << parent_pid, elsewhere, daemonVars, connVars, childVars >>

\* UnixStream::connect: succeeds while the listener is bound.
ClientConnect(c) ==
    /\ Listening /\ cstate[c] = "idle"
    /\ cstate' = [cstate EXCEPT ![c] = "pending"]
    /\ UNCHANGED << inbox, peerOpen, out, ex, sends, daemonVars, envVars, childVars >>

ClientSend(c, text) ==
    /\ Running /\ cstate[c] \in {"pending", "await", "exec"}
    /\ peerOpen[c] /\ inbox[c] = None /\ sends < MaxSends
    /\ inbox' = [inbox EXCEPT ![c] = text]
    /\ sends' = sends + 1
    /\ UNCHANGED << cstate, peerOpen, out, ex, daemonVars, envVars, childVars >>

ClientClose(c) ==
    /\ Running /\ cstate[c] \in {"pending", "await", "exec"} /\ peerOpen[c]
    /\ peerOpen' = [peerOpen EXCEPT ![c] = FALSE]
    /\ UNCHANGED << cstate, inbox, out, ex, sends, daemonVars, envVars, childVars >>

\* ------------------------------------------------------------------ run_daemon
\* One action is one turn of the loop from the select! on: the branch that
\* completes, then the shutdown.load() at the top of the next turn and, when
\* it breaks, the code after the loop (none of which awaits).

\* Mutant of LoopTop: the loop is left and the socket file stays behind.
LoopTopKeepsFile(cs) ==
    IF shutdown'
    THEN /\ mainPc' = "returned"
         /\ socketFile' = socketFile
         /\ cstate' = [c \in Conns |-> IF cs[c] = "pending" THEN "closed" ELSE cs[c]]
    ELSE /\ mainPc' = "select"
         /\ socketFile' = socketFile
         /\ cstate' = cs

\* if shutdown.load() { break } ... remove_file(&socket_path); Ok(()):
\* returning drops the listener, so connections still in its backlog are reset.
LoopTop(cs) ==
    IF shutdown'
    THEN /\ mainPc' = "returned"
         /\ socketFile' = FALSE
         /\ cstate' = [c \in Conns |-> IF cs[c] = "pending" THEN "closed" ELSE cs[c]]
    ELSE /\ mainPc' = "select"
         /\ socketFile' = socketFile
         /\ cstate' = cs

\* select!: accept_future yields Ok((stream, _)); the handler task is spawned.
MainAccept(c) ==
    /\ mainPc = "select" /\ cstate[c] = "pending"
    /\ UNCHANGED shutdown
    /\ LoopTop([cstate EXCEPT ![c] = "await"])
    /\ UNCHANGED << envVars, inbox, peerOpen, out, ex, sends, childVars >>

\* select!: accept_future yields Err(e).
MainAcceptErr ==
    /\ mainPc = "select"
    /\ UNCHANGED shutdown
    /\ LoopTop(cstate)
    /\ UNCHANGED << envVars, inbox, peerOpen, out, ex, sends, childVars >>

\* select!: the 100 ms sleep elapses.
MainTimeout ==
    /\ mainPc = "select"
    /\ UNCHANGED shutdown
    /\ LoopTop(cstate)
    /\ UNCHANGED << envVars, inbox, peerOpen, out, ex, sends, childVars >>

\* select!: SIGINT arrives and tokio::signal::ctrl_c() resolves:
\* shutdown.store(true); break.
MainCtrlC ==
    /\ mainPc = "select"
    /\ shutdown' = TRUE
    /\ LoopTop(cstate)
    /\ UNCHANGED << envVars, inbox, peerOpen, out, ex, sends, childVars >>

\* The daemon binary returns from main once run_daemon has returned: the
\* runtime is dropped and every task still running is cancelled.
ProcessExit ==
    /\ mainPc = "returned"
    /\ mainPc' = "exited"
    /\ cstate' = [c \in Conns |->
                    CASE cstate[c] = "await" -> "killed"
                      [] cstate[c] = "exec"  -> "aborted"
                      [] OTHER               -> cstate[c]]
    /\ inbox' = [c \in Conns |-> None]
    /\ ex' = [c \in Conns |-> [NoExec EXCEPT !.pid = ex[c].pid]]
    /\ UNCHANGED << shutdown, socketFile, envVars, peerOpen, out, sends, childVars >>

\* Mutant of MonitorTick: the monitor sees the parent gone and stores nothing.
MonitorTickNoStore ==
    /\ Running /\ parent_pid # None
    /\ UNCHANGED shutdown
    /\ UNCHANGED << mainPc, socketFile, envVars, connVars, childVars >>

\* spawn_parent_monitor: one tick of the 2 s interval. The task ends after
\* its store; the flag is never cleared, so that the task has ended cannot
\* be observed and is not recorded.
MonitorTick ==
    /\ Running /\ parent_pid # None
    /\ shutdown' = (shutdown \/ ~is_process_running)
    /\ UNCHANGED << mainPc, socketFile, envVars, connVars, childVars >>

\* spawn_signal_handler: SIGTERM or SIGINT arrives, sigterm.recv() or
\* sigint.recv() resolves, then shutdown.store(true); as for the monitor, the
\* task's end is not recorded.
SignalTask ==
    /\ Running
    /\ shutdown' = TRUE
    /\ UNCHANGED << mainPc, socketFile, envVars, connVars, childVars >>

\* ------------------------------------------------------------------ handle_client
\* Mutant of Writer: one write half shared by every connection.
WriterShared(c) == 1

\* writer.clone(): each connection's Arc<Mutex<WriteHalf>> is its own.
Writer(c) == c

\* w.write_all(frame): the frame reaches connection w.
Written(w, m) == [out EXCEPT ![w] = Append(@, m)]

\* send_message succeeds while the client holds its end open (EPIPE after).
CanWrite(c) == peerOpen[c]

\* read_line returned a line.
Reads(c) == Running /\ cstate[c] = "await" /\ inbox[c] # None

\* line.clear(); read_line(&mut line): the line is taken from the socket,
\* and a new exchange starts.
Read(c) == inbox' = [inbox EXCEPT ![c] = None]

\* The exchange is answered with the frames fs (none, or one).
Answered(c, fs) == [out EXCEPT ![c] = << >>, ![Writer(c)] = fs]

\* Mutant of Dispatches: the handler does not look at the shutdown flag.
DispatchesIgnoringFlag(c) ==
    /\ Reads(c)
    /\ (parent_pid # None => is_process_running)

\* The line passes the shutdown check and the parent check and is decoded.
Dispatches(c) ==
    /\ Reads(c)
    /\ ~shutdown
    /\ (parent_pid # None => is_process_running)

\* read_line returned 0 bytes: the client closed its end.
HandleEof(c) ==
    /\ Running /\ cstate[c] = "await" /\ inbox[c] = None /\ ~peerOpen[c]
    /\ cstate' = [cstate EXCEPT ![c] = "closed"]
    /\ UNCHANGED << inbox, peerOpen, out, ex, sends, daemonVars, envVars, childVars >>

\* if shutdown.load() { break }
HandleWhileShutdown(c) ==
    /\ Reads(c) /\ shutdown
    /\ Read(c)
    /\ out' = Answered(c, << >>)
    /\ cstate' = [cstate EXCEPT ![c] = "closed"]
    /\ UNCHANGED << peerOpen, ex, sends, daemonVars, envVars, childVars >>

\* if !is_process_running(pid) { send_error(..)?; shutdown.store(true); break }
HandleParentGone(c) ==
    /\ Reads(c) /\ ~shutdown
    /\ parent_pid # None /\ ~is_process_running
    /\ Read(c)
    /\ cstate' = [cstate EXCEPT ![c] = "closed"]
    /\ IF CanWrite(c)
       THEN /\ out' = Answered(c, << ErrorMessage("Parent process is no longer running") >>)
            /\ shutdown' = TRUE
       ELSE /\ out' = Answered(c, << >>)
            /\ UNCHANGED shutdown
    /\ UNCHANGED << peerOpen, ex, sends, mainPc, socketFile, envVars, childVars >>

\* Mutant of HandleMalformed: the error is reported and the loop is left.
HandleMalformedBreaks(c) ==
    /\ Dispatches(c) /\ Decode(inbox[c]) = "ParseError"
    /\ Read(c)
    /\ IF CanWrite(c)
       THEN out' = Answered(c, << ErrorMessage("Failed to parse message") >>)
       ELSE out' = Answered(c, << >>)
    /\ cstate' = [cstate EXCEPT ![c] = "closed"]
    /\ UNCHANGED << peerOpen, ex, sends, daemonVars, envVars, childVars >>

\* Err(e) => { send_error(..)?; continue }
HandleMalformed(c) ==
    /\ Dispatches(c) /\ Decode(inbox[c]) = "ParseError"
    /\ Read(c)
    /\ IF CanWrite(c)
       THEN /\ out' = Answered(c, << ErrorMessage("Failed to parse message") >>)
            /\ UNCHANGED cstate
       ELSE /\ out' = Answered(c, << >>)
            /\ cstate' = [cstate EXCEPT ![c] = "closed"]
    /\ UNCHANGED << peerOpen, ex, sends, daemonVars, envVars, childVars >>

\* Mutant of HandlePing: a Ping is answered with the Shutdown arm's frame.
HandlePingWrongFrame(c) ==
    /\ Dispatches(c) /\ Decode(inbox[c]) = "Ping"
    /\ Read(c)
    /\ IF CanWrite(c)
       THEN /\ out' = Answered(c, << ShutdownAck >>)
            /\ UNCHANGED cstate
       ELSE /\ out' = Answered(c, << >>)
            /\ cstate' = [cstate EXCEPT ![c] = "closed"]
    /\ UNCHANGED << peerOpen, ex, sends, daemonVars, envVars, childVars >>

\* ClientMessage::Ping => send_message(Pong)?
HandlePing(c) ==
    /\ Dispatches(c) /\ Decode(inbox[c]) = "Ping"
    /\ Read(c)
    /\ IF CanWrite(c)
       THEN /\ out' = Answered(c, << Pong >>)
            /\ UNCHANGED cstate
       ELSE /\ out' = Answered(c, << >>)
            /\ cstate' = [cstate EXCEPT ![c] = "closed"]
    /\ UNCHANGED << peerOpen, ex, sends, daemonVars, envVars, childVars >>

\* Mutant of HandleShutdown: the acknowledgement is sent and the flag is
\* left as it is.
HandleShutdownNoStore(c) ==
    /\ Dispatches(c) /\ Decode(inbox[c]) = "Shutdown"
    /\ Read(c)
    /\ cstate' = [cstate EXCEPT ![c] = "closed"]
    /\ IF CanWrite(c)
       THEN out' = Answered(c, << ShutdownAck >>)
       ELSE out' = Answered(c, << >>)
    /\ UNCHANGED shutdown
    /\ UNCHANGED << peerOpen, ex, sends, mainPc, socketFile, envVars, childVars >>

\* ClientMessage::Shutdown => { send_message(ShutdownAck)?; shutdown.store(true); break }
HandleShutdown(c) ==
    /\ Dispatches(c) /\ Decode(inbox[c]) = "Shutdown"
    /\ Read(c)
    /\ cstate' = [cstate EXCEPT ![c] = "closed"]
    /\ IF CanWrite(c)
       THEN /\ out' = Answered(c, << ShutdownAck >>)
            /\ shutdown' = TRUE
       ELSE /\ out' = Answered(c, << >>)
            /\ UNCHANGED shutdown
    /\ UNCHANGED << peerOpen, ex, sends, mainPc, socketFile, envVars, childVars >>

\* Mutant of HandleExecute: the daemon runs one command at a time and turns
\* an Execute down while another connection's command is running.
HandleExecuteOneSlot(c) ==
    /\ Dispatches(c) /\ Decode(inbox[c]) = "Execute"
    /\ nextPid <= MaxCmds
    /\ Read(c)
    /\ IF \E e \in Conns \ {c} : cstate[e] = "exec"
       THEN /\ out' = Answered(c, IF CanWrite(c) THEN << ErrorMessage("busy") >>
                                  ELSE << >>)
            /\ UNCHANGED << cstate, ex, child, nextPid >>
       ELSE /\ out' = Answered(c, << >>)
            /\ cstate' = [cstate EXCEPT ![c] = "exec"]
            /\ child' = [child EXCEPT ![nextPid] = [state |-> "running", conn |-> c]]
            /\ ex' = [ex EXCEPT ![c] =
                        [pc |-> "select", pid |-> nextPid, reader |-> "running",
                         lines |-> 0, fwd |-> "running", chan |-> << >>]]
            /\ nextPid' = nextPid + 1
    /\ UNCHANGED << peerOpen, sends, daemonVars, envVars >>

\* ClientMessage::Execute => execute_command: Fork::from_ptmx() returns
\* Fork::Parent(pid, master); read_pty_output spawns the blocking reader and
\* builds the forwarding task.
HandleExecute(c) ==
    /\ Dispatches(c) /\ Decode(inbox[c]) = "Execute"
    /\ nextPid <= MaxCmds
    /\ Read(c)
    /\ out' = Answered(c, << >>)
    /\ cstate' = [cstate EXCEPT ![c] = "exec"]
    /\ child' = [child EXCEPT ![nextPid] = [state |-> "running", conn |-> c]]
    /\ ex' = [ex EXCEPT ![c] =
                    [pc |-> "select", pid |-> nextPid, reader |-> "running", lines |-> 0,
                     fwd |-> "running", chan |-> << >>]]
    /\ nextPid' = nextPid + 1
    /\ UNCHANGED << peerOpen, sends, daemonVars, envVars >>

\* Fork::from_ptmx() fails: execute_command returns Err, which handle_client
\* propagates; the task ends and the stream is dropped.
HandleExecuteForkFails(c) ==
    /\ Dispatches(c) /\ Decode(inbox[c]) = "Execute"
    /\ Read(c)
    /\ out' = Answered(c, << >>)
    /\ cstate' = [cstate EXCEPT ![c] = "closed"]
    /\ UNCHANGED << peerOpen, ex, sends, daemonVars, envVars, childVars >>

\* ------------------------------------------------------------------ the child
\* The child terminates (exit, or death by a signal).
ChildExit(p) ==
    /\ child[p].state = "running"
    /\ child' = [child EXCEPT ![p].state = "exited"]
    /\ UNCHANGED << nextPid, daemonVars, envVars, connVars >>

\* ------------------------------------------------------------------ read_pty_output
Streaming(c) == Running /\ cstate[c] = "exec" /\ ex[c].pc = "select"

\* Blocking reader: the child writes its next line to the pty, read_line
\* returns Ok(n), n > 0, and tx.send(Ok(line)) queues it.
ReaderLine(c) ==
    /\ Streaming(c) /\ ex[c].reader = "running"
    /\ child[ex[c].pid].state = "running" /\ ex[c].lines < MaxLines
    /\ ex' = [ex EXCEPT ![c].chan = Append(@, << ex[c].pid, ex[c].lines + 1 >>),
                        ![c].lines = @ + 1]
    /\ UNCHANGED << childVars, cstate, inbox, peerOpen, out, sends, daemonVars, envVars >>

\* The slave side of the pty is closed and everything written was read.
PtyAtEnd(c) ==
    /\ Streaming(c) /\ ex[c].reader = "running"
    /\ child[ex[c].pid].state = "exited"

\* Blocking reader: read_line returns Ok(0); the closure returns, dropping tx.
ReaderEof(c) ==
    /\ PtyAtEnd(c)
    /\ ex' = [ex EXCEPT ![c].reader = "gone"]
    /\ UNCHANGED << childVars, cstate, inbox, peerOpen, out, sends, daemonVars, envVars >>

\* Blocking reader: read_line returns Err(e) (EIO once the slave side is
\* closed); tx.send(Err(e)) and the closure returns.
ReaderErr(c) ==
    /\ PtyAtEnd(c)
    /\ ex' = [ex EXCEPT ![c].reader = "gone", ![c].chan = Append(@, "Err")]
    /\ UNCHANGED << childVars, cstate, inbox, peerOpen, out, sends, daemonVars, envVars >>

\* The forwarding task lives as long as its future is polled.
Forwarding(c) == Running /\ cstate[c] \in {"await", "exec"} /\ ex[c].fwd = "running"

\* output_task: rx.recv() yields Some(Ok(line)); the Output frame is
\* written, a write error being ignored.
ForwardLine(c) ==
    /\ Forwarding(c)
    /\ ex[c].chan # << >> /\ Head(ex[c].chan) # "Err"
    /\ ex' = [ex EXCEPT ![c].chan = Tail(@)]
    /\ out' = IF CanWrite(c) THEN Written(Writer(c), Output(Head(ex[c].chan))) ELSE out
    /\ UNCHANGED << childVars, cstate, inbox, peerOpen, sends, daemonVars, envVars >>

\* output_task: rx.recv() yields Some(Err(e)): break.
ForwardErr(c) ==
    /\ Forwarding(c)
    /\ ex[c].chan # << >> /\ Head(ex[c].chan) = "Err"
    /\ ex' = [ex EXCEPT ![c].chan = Tail(@), ![c].fwd = "done"]
    /\ UNCHANGED << childVars, cstate, inbox, peerOpen, out, sends, daemonVars, envVars >>

\* output_task: rx.recv() yields None: every sender is gone and the queue
\* is empty.
ForwardClosed(c) ==
    /\ Forwarding(c)
    /\ ex[c].chan = << >> /\ ex[c].reader = "gone"
    /\ ex' = [ex EXCEPT ![c].fwd = "done"]
    /\ UNCHANGED << childVars, cstate, inbox, peerOpen, out, sends, daemonVars, envVars >>

\* Mutant of AfterSelect: the forwarding task is spawned, not polled in
\* place, and outlives the select!.
AfterSelectTaskLives(e) == [e EXCEPT !.pc = "wait"]

\* Mutant of AfterSelect: the select! is armed again instead of falling
\* through to the wait.
AfterSelectStays(e) == e

\* What becomes of the forwarding task and of its receiver when select!
\* returns: both branches' futures are dropped, and the queue with them.
AfterSelect(e) == [e EXCEPT !.pc = "wait", !.fwd = "gone", !.chan = << >>]

\* tokio::select! { _ = read_handle => {}, _ = output_task => {} }: the
\* first branch found ready completes the select.
SelectDone(c) ==
    /\ Streaming(c)
    /\ ex[c].reader = "gone" \/ ex[c].fwd = "done"
    /\ ex' = [ex EXCEPT ![c] = AfterSelect(@)]
    /\ UNCHANGED << childVars, cstate, inbox, peerOpen, out, sends, daemonVars, envVars >>

Waiting(c) == Running /\ cstate[c] = "exec" /\ ex[c].pc = "wait"

\* read_pty_output returns Ok(exit_code); execute_command:
\* send_message(Completed { exit_code })?
Complete(c, exit_code) ==
    /\ ex' = [ex EXCEPT ![c].pc = "none", ![c].pid = 0, ![c].lines = 0]
    /\ IF CanWrite(c)
       THEN /\ out' = Written(Writer(c), Completed(ex[c].pid, exit_code))
            /\ cstate' = [cstate EXCEPT ![c] = "await"]
       ELSE /\ cstate' = [cstate EXCEPT ![c] = "closed"]
            /\ UNCHANGED out

\* Mutant of WaitReaps: the status is taken without waiting for the child
\* (WNOHANG) and the child is left unreaped.
WaitReapsNoHang(c, fate) ==
    /\ Waiting(c)
    /\ Complete(c, UnwrapOr(TRUE, ExitCodeOf(ex[c].pid, ex[c].pid, StatusOf(fate))))
    /\ UNCHANGED << childVars, inbox, peerOpen, sends, daemonVars, envVars >>

\* spawn_blocking(waitpid): waitpid returns the pid once the child is gone,
\* with the status of the child's fate.
WaitReaps(c, fate) ==
    /\ Waiting(c) /\ child[ex[c].pid].state = "exited"
    /\ Complete(c, UnwrapOr(TRUE, ExitCodeOf(ex[c].pid, ex[c].pid, StatusOf(fate))))
    /\ child' = [child EXCEPT ![ex[c].pid].state = "reaped"]
    /\ UNCHANGED << nextPid, inbox, peerOpen, sends, daemonVars, envVars >>

\* spawn_blocking(waitpid): waitpid returns -1.
WaitFails(c) ==
    /\ Waiting(c)
    /\ Complete(c, UnwrapOr(TRUE, ExitCodeOf(-1, ex[c].pid, 0)))
    /\ UNCHANGED << childVars, inbox, peerOpen, sends, daemonVars, envVars >>

\* The blocking task itself fails: .await.unwrap_or(-1).
WaitJoinError(c) ==
    /\ Waiting(c)
    /\ Complete(c, UnwrapOr(FALSE, 0))
    /\ UNCHANGED << childVars, inbox, peerOpen, sends, daemonVars, envVars >>

\* ------------------------------------------------------------------ specification
Next ==
    \/ ParentDies
    \/ \E c \in Conns : ClientConnect(c)
    \/ \E c \in Conns, text \in ClientLines : ClientSend(c, text)
    \/ \E c \in Conns : ClientClose(c)
    \/ \E c \in Conns : MainAccept(c)
    \/ MainAcceptErr
    \/ MainTimeout
    \/ MainCtrlC
    \/ ProcessExit
    \/ MonitorTick
    \/ SignalTask
    \/ \E c \in Conns : HandleEof(c)
    \/ \E c \in Conns : HandleWhileShutdown(c)
    \/ \E c \in Conns : HandleParentGone(c)
    \/ \E c \in Conns : HandleMalformed(c)
    \/ \E c \in Conns : HandlePing(c)
    \/ \E c \in Conns : HandleShutdown(c)
    \/ \E c \in Conns : HandleExecute(c)
    \/ \E c \in Conns : HandleExecuteForkFails(c)
    \/ \E p \in Pids : ChildExit(p)
    \/ \E c \in Conns : ReaderLine(c)
    \/ \E c \in Conns : ReaderEof(c)
    \/ \E c \in Conns : ReaderErr(c)
    \/ \E c \in Conns : ForwardLine(c)
    \/ \E c \in Conns : ForwardErr(c)
    \/ \E c \in Conns : ForwardClosed(c)
    \/ \E c \in Conns : SelectDone(c)
    \/ \E c \in Conns, fate \in Fates : WaitReaps(c, fate)
    \/ \E c \in Conns : WaitFails(c)
    \/ \E c \in Conns : WaitJoinError(c)

Spec == Init /\ [][Next]_vars

\* The interval of the parent monitor and the sleep of the accept loop are
\* timers of the runtime: each fires again and again.
FairSpec == Spec /\ WF_vars(MonitorTick) /\ WF_vars(MainTimeout)

\* The steps of the handler of c that read a line.
HandleLine(c) ==
    \/ HandleEof(c) \/ HandleWhileShutdown(c) \/ HandleParentGone(c)
    \/ HandleMalformed(c) \/ HandlePing(c) \/ HandleShutdown(c)
    \/ HandleExecute(c) \/ HandleExecuteForkFails(c)

\* The daemon's own tasks make progress: the runtime polls every task that
\* is ready (the accept loop, the handlers) and the blocking pool runs the
\* pty reader and the waitpid closure. Children, clients and signals are
\* under no such obligation.
ExecFairSpec ==
    /\ Spec
    /\ WF_vars(MainTimeout)
    /\ \A c \in Conns :
          /\ WF_vars(MainAccept(c))
          /\ WF_vars(HandleLine(c))
          /\ WF_vars(ReaderEof(c) \/ ReaderErr(c))
          /\ WF_vars(SelectDone(c))
          /\ WF_vars(WaitFails(c) \/ WaitJoinError(c)
                        \/ \E fate \in Fates : WaitReaps(c, fate))

\* ------------------------------------------------------------------ the wait, alone
\* read_pty_output from its spawn_blocking(waitpid) on, for one child and
\* every outcome of the wait.
WaitReturns(pid, result, fate) ==
    /\ waited' = [pid |-> pid, result |-> result, fate |-> fate, joined |-> TRUE,
                  exit_code |-> UnwrapOr(TRUE, ExitCodeOf(result, pid, StatusOf(fate)))]
    /\ UNCHANGED << mainVars, startVars, cli, wire >>

WaitTaskFails(pid) ==
    /\ waited' = [pid |-> pid, result |-> -1, fate |-> Fate("none", 0, FALSE),
                  joined |-> FALSE,
                  exit_code |-> UnwrapOr(FALSE, 0)]
    /\ UNCHANGED << mainVars, startVars, cli, wire >>

WaitNext ==
    \/ \E pid \in Pids, fate \in AllFates : WaitReturns(pid, pid, fate)
    \/ \E pid \in Pids, fate \in AllFates : WaitReturns(pid, -1, fate)
    \/ \E pid \in Pids : WaitTaskFails(pid)

WaitSpec == Init /\ [][WaitNext]_vars

\* ------------------------------------------------------------------ start-up
\* Daemon processes for one target uid, the file at their socket path, and
\* the launcher (start_daemon).
Mode0600 == 384
Mode0660 == 432
Mode0666 == 438

SocketExists == sock.owner # 0

\* remove_file(&socket_path): the file is gone, its directory stays.
Unlinked(f) == [NoFile EXCEPT !.dir = f.dir]

\* Mutant of SocketMode: without an effective uid the socket is left open
\* to everyone.
SocketModeOpen(euid, pw, chown) ==
    IF euid # None
    THEN IF pw = "resolved"
         THEN IF chown = "ok" THEN Mode0660 ELSE Mode0666
         ELSE Mode0666
    ELSE Mode0666

\* set_socket_permissions: the mode it asks set_permissions for; pw is the
\* outcome of getpwuid ("resolved", "null"), chown that of chown.
SocketMode(euid, pw, chown) ==
    IF euid # None
    THEN IF pw = "resolved"
         THEN IF chown = "ok" THEN Mode0660 ELSE Mode0666
         ELSE Mode0666
    ELSE Mode0600

\* Mutant of RunDaemon: the uid is not looked at.
RunDaemonNoRootCheck(d, euid, root) ==
    /\ inst[d].pc = "off"
    /\ inst' = [inst EXCEPT ![d].pc = "check_old", ![d].euid = euid, ![d].root = root]
    /\ UNCHANGED << sock, sup, waited, cli, wire, mainVars >>

\* run_daemon is entered (the daemon binary is run directly): getuid() != 0
\* bails out.
RunDaemon(d, euid, root) ==
    /\ inst[d].pc = "off"
    /\ inst' = [inst EXCEPT ![d].pc = IF root THEN "check_old" ELSE "failed",
                            ![d].euid = euid, ![d].root = root]
    /\ UNCHANGED << sock, sup, waited, cli, wire, mainVars >>

\* pkexec, spawned by start_daemon, authenticates the user and runs the
\* daemon as root, or the user cancels and pkexec exits.
PkexecAuth(d, granted) ==
    /\ inst[d].pc = "pkexec"
    /\ inst' = [inst EXCEPT ![d].pc = IF granted THEN "check_old" ELSE "failed"]
    /\ UNCHANGED << sock, sup, waited, cli, wire, mainVars >>

\* if socket_path.exists()
CheckOld(d) ==
    /\ inst[d].pc = "check_old"
    /\ inst' = [inst EXCEPT ![d].pc = IF SocketExists THEN "remove_old" ELSE "mkdir"]
    /\ UNCHANGED << sock, sup, waited, cli, wire, mainVars >>

\* remove_file(&socket_path).context("Failed to remove old socket")?
RemoveOld(d) ==
    /\ inst[d].pc = "remove_old"
    /\ IF SocketExists
       THEN /\ sock' = Unlinked(sock)
            /\ inst' = [inst EXCEPT ![d].pc = "mkdir"]
       ELSE /\ inst' = [inst EXCEPT ![d].pc = "failed"]
            /\ UNCHANGED sock
    /\ UNCHANGED << sup, waited, cli, wire, mainVars >>

\* create_dir_all(parent).context("Failed to create socket directory")?:
\* nothing to do when the directory is there; else it is created, or the
\* call fails.
MakeDir(d, made) ==
    /\ inst[d].pc = "mkdir"
    /\ sock.dir => made
    /\ IF made
       THEN /\ sock' = [sock EXCEPT !.dir = TRUE]
            /\ inst' = [inst EXCEPT ![d].pc = "bind"]
       ELSE /\ inst' = [inst EXCEPT ![d].pc = "failed"]
            /\ UNCHANGED sock
    /\ UNCHANGED << sup, waited, cli, wire, mainVars >>

\* UnixListener::bind(&socket_path).context("Failed to bind Unix socket")?:
\* bind creates the file, and fails when there is one.
Bind(d) ==
    /\ inst[d].pc = "bind"
    /\ IF SocketExists
       THEN /\ inst' = [inst EXCEPT ![d].pc = "failed"]
            /\ UNCHANGED sock
       ELSE /\ inst' = [inst EXCEPT ![d].pc = "perms"]
            /\ sock' = [owner |-> d, mode |-> 0, group |-> "root", dir |-> sock.dir]
    /\ UNCHANGED << sup, waited, cli, wire, mainVars >>

\* set_socket_permissions(&socket_path, effective_uid)?, then the accept
\* loop is entered. chown and set_permissions act on the path; a failing
\* set_permissions is an Err out of run_daemon, which drops the listener
\* and leaves the file.
SetPermissions(d, pw, chown, chmod_ok) ==
    /\ inst[d].pc = "perms"
    /\ inst[d].euid = None => pw = "none" /\ chown = "none"
    /\ inst[d].euid # None => pw # "none" /\ (chown = "none" <=> pw = "null")
    /\ ~SocketExists => chown # "ok" /\ ~chmod_ok
    /\ LET mode == SocketMode(inst[d].euid, pw, chown) IN
       IF chmod_ok
       THEN /\ sock' = [sock EXCEPT !.mode = mode,
                                    !.group = IF chown = "ok" THEN "user" ELSE @]
            /\ inst' = [inst EXCEPT ![d].pc = "listening", ![d].pw = pw,
                                    ![d].chown = chown, ![d].mode = mode]
       ELSE /\ inst' = [inst EXCEPT ![d].pc = "failed", ![d].pw = pw,
                                    ![d].chown = chown]
            /\ sock' = [sock EXCEPT !.group = IF chown = "ok" THEN "user" ELSE @]
    /\ UNCHANGED << sup, waited, cli, wire, mainVars >>

\* The accept loop is left: if socket_path.exists() { remove_file }; Ok(()).
DaemonReturns(d) ==
    /\ inst[d].pc = "listening"
    /\ inst' = [inst EXCEPT ![d].pc = "returned"]
    /\ sock' = Unlinked(sock)
    /\ UNCHANGED << sup, waited, cli, wire, mainVars >>

\* Abnormal termination: the process is gone, its socket file is not.
DaemonKilled(d) ==
    /\ inst[d].pc \in {"perms", "listening"}
    /\ inst' = [inst EXCEPT ![d].pc = "killed"]
    /\ UNCHANGED << sock, sup, waited, cli, wire, mainVars >>

\* child.try_wait() yields Ok(Some(status)): the helper's process is gone.
HelperExited == inst[sup.helper].pc \in {"failed", "returned", "killed"}

\* start_daemon up to its polling loop.
\* if is_daemon_running() { return Ok(()) }: the probe answers true.
StartAlreadyRunning ==
    /\ sup.pc = "idle"
    /\ sup' = [sup EXCEPT !.pc = "ok", !.running = TRUE]
    /\ UNCHANGED << inst, sock, waited, cli, wire, mainVars >>

\* The probe answers false; Command::new("pkexec")...spawn() succeeds.
StartSpawn(d) ==
    /\ sup.pc = "idle"
    /\ inst[d].pc = "off"
    /\ inst' = [inst EXCEPT ![d].pc = "pkexec", ![d].euid = "Some", ![d].root = TRUE]
    /\ sup' = [pc |-> "poll", running |-> FALSE, helper |-> d, polls |-> 0]
    /\ UNCHANGED << sock, waited, cli, wire, mainVars >>

\* The probe answers false; spawn() fails:
\* .context("Failed to spawn pkexec")?
StartSpawnFails ==
    /\ sup.pc = "idle"
    /\ sup' = [sup EXCEPT !.pc = "spawn_failed"]
    /\ UNCHANGED << inst, sock, waited, cli, wire, mainVars >>

\* Mutant of PollOutcome: the helper's exit is looked at before the socket.
PollOutcomeHelperFirst ==
    IF HelperExited THEN "helper_exited"
    ELSE IF SocketExists THEN "ok"
    ELSE IF sup.polls >= PollLimit THEN "timeout"
    ELSE "poll"

\* One turn of the polling loop: the socket, then the helper, then the
\* clock; "poll" is the sleep before the next turn.
PollOutcome ==
    IF SocketExists THEN "ok"
    ELSE IF HelperExited THEN "helper_exited"
    ELSE IF sup.polls >= PollLimit THEN "timeout"
    ELSE "poll"

StartPoll ==
    /\ sup.pc = "poll"
    /\ sup' = [sup EXCEPT !.pc = PollOutcome,
                          !.polls = IF PollOutcome = "poll" THEN @ + 1 ELSE @]
    /\ UNCHANGED << inst, sock, waited, cli, wire, mainVars >>

StartNext ==
    \/ \E d \in Daemons, euid \in {None, "Some"}, root \in BOOLEAN : RunDaemon(d, euid, root)
    \/ \E d \in Daemons, granted \in BOOLEAN : PkexecAuth(d, granted)
    \/ \E d \in Daemons : CheckOld(d)
    \/ \E d \in Daemons : RemoveOld(d)
    \/ \E d \in Daemons, made \in BOOLEAN : MakeDir(d, made)
    \/ \E d \in Daemons : Bind(d)
    \/ \E d \in Daemons, pw \in {"none", "resolved", "null"},
          chown \in {"none", "ok", "failed"}, chmod_ok \in BOOLEAN :
            SetPermissions(d, pw, chown, chmod_ok)
    \/ \E d \in Daemons : DaemonReturns(d)
    \/ \E d \in Daemons : DaemonKilled(d)
    \/ StartAlreadyRunning
    \/ \E d \in Daemons : StartSpawn(d)
    \/ StartSpawnFails
    \/ StartPoll

StartSpec == Init /\ [][StartNext]_vars

\* ------------------------------------------------------------------ the client
\* Client::execute and Client::shutdown of the library, and main of the CLI
\* (whose Client is a copy of the library's), against every stream of
\* responses up to MaxResp messages.
Responses ==
    {Output(<< 1, 1 >>), Output(<< 1, 2 >>), Error(<< 1, 1 >>),
     Completed(1, 0), Completed(1, 137), Completed(1, -1),
     ErrorMessage("failed"), Pong, ShutdownAck}

Streams == UNION {[1..n -> Responses] : n \in 0..MaxResp}

\* An environment gives each key a value, or None when it is unset.
EnvKeys == << "A", "B" >>
\* The environment of the daemon process.
DaemonEnv == [k \in {"A", "B"} |-> IF k = "A" THEN "1" ELSE None]
\* What the CLI may inherit, and what --env options it may be given.
InheritedEnvs == {[k \in {"A", "B"} |-> IF k = "B" THEN "1" ELSE None],
                  [k \in {"A", "B"} |-> "2"]}
ExplicitEnvs == {<< >>, << << "A", "2" >> >>, << << "B", "2" >>, << "B", "1" >> >>}

\* for (key, value) in std::env::vars() { env_vars.push("KEY=VALUE") }
RECURSIVE EnvEntries(_, _)
EnvEntries(env, i) ==
    IF i > Len(EnvKeys) THEN << >>
    ELSE (IF env[EnvKeys[i]] = None THEN << >>
          ELSE << << EnvKeys[i], env[EnvKeys[i]] >> >>) \o EnvEntries(env, i + 1)

\* env_vars.extend(args.env): the inherited entries, then the --env ones.
RequestEnv(inherited, explicit) == EnvEntries(inherited, 1) \o explicit

\* execute_command, Fork::Child: Command::new(&program).args(&args).exec()
\* sets no variable, so the child has the environment of the daemon.
ChildEnv(env, request) == env

\* Mutant of ExecuteReturn: the sentinel is 0.
ExecuteReturnZero(exit_code) == Ok(IF exit_code = << >> THEN 0 ELSE exit_code[1])

\* Ok(exit_code.unwrap_or(-1))
ExecuteReturn(exit_code) == Ok(IF exit_code = << >> THEN -1 ELSE exit_code[1])

\* Mutant of ShutdownOutcome: any response counts as the acknowledgement.
ShutdownOutcomeAnyReply(first) ==
    CASE first.type = "eof" -> Err("Connection closed before shutdown acknowledgment")
      [] first.type = "err" -> Err("read")
      [] OTHER -> Ok(0)

\* Client::shutdown's match on read_message(..)?: first is the message
\* read, type "eof" for None, type "err" for a failed read.
ShutdownOutcome(first) ==
    CASE first.type = "eof" -> Err("Connection closed before shutdown acknowledgment")
      [] first.type = "err" -> Err("read")
      [] first = ShutdownAck -> Ok(0)
      [] OTHER -> Err("Unexpected response to shutdown")

\* Mutant of ExitStatus: the code is passed through unchanged.
ExitStatusAsIs(code) == code

\* std::process::exit(code): the status the parent of the process sees is
\* the low eight bits of code.
ExitStatus(code) == code % 256

\* read_message(&mut reader).await: the next message, or how the stream
\* ends.
NextResponse ==
    IF cli.pos > Len(cli.given.msgs) THEN [type |-> cli.given.ending]
    ELSE cli.given.msgs[cli.pos]

\* Client::execute up to its loop: write_message(Execute)?.
Execute(call, env, msgs, ending, write_ok) ==
    IF write_ok
    THEN [call EXCEPT !.pc = "reading", !.sent = << ExecuteRequest(env) >>,
                      !.given = [msgs |-> msgs, ending |-> ending]]
    ELSE [call EXCEPT !.pc = "done", !.result = Err("write")]

CallExecute ==
    /\ cli.op = "none"
    /\ \E write_ok \in BOOLEAN, ending \in {"eof", "err"}, msgs \in Streams :
        /\ ~write_ok => msgs = << >> /\ ending = "eof"
        /\ cli' = Execute([cli EXCEPT !.op = "execute"], << >>, msgs, ending, write_ok)
    /\ UNCHANGED << waited, startVars, wire, mainVars >>

\* Mutant of ExecuteRead: Completed is noted and the loop goes on reading.
ExecuteReadPastCompleted ==
    /\ cli.op \in {"execute", "main"} /\ cli.pc = "reading"
    /\ LET m == NextResponse IN
       cli' = CASE m.type = "eof" ->
                     [cli EXCEPT !.pc = "done", !.result = ExecuteReturn(cli.exit_code)]
                [] m.type = "err" ->
                     [cli EXCEPT !.pc = "done", !.result = Err("read")]
                [] m.type = "Output" ->
                     [cli EXCEPT !.pos = @ + 1,
                                 !.called = Append(@, << "on_output", m.line >>)]
                [] m.type = "Error" ->
                     [cli EXCEPT !.pos = @ + 1,
                                 !.called = Append(@, << "on_error", m.line >>)]
                [] m.type = "Completed" ->
                     [cli EXCEPT !.pos = @ + 1, !.exit_code = << m.exit_code >>]
                [] m.type = "ErrorMessage" ->
                     [cli EXCEPT !.pos = @ + 1, !.pc = "done",
                                 !.result = Err("Daemon error")]
                [] OTHER -> [cli EXCEPT !.pos = @ + 1]
    /\ UNCHANGED << waited, startVars, wire, mainVars >>

\* One turn of the loop of Client::execute, and what follows it when the
\* loop is left.
ExecuteRead ==
    /\ cli.op \in {"execute", "main"} /\ cli.pc = "reading"
    /\ LET m == NextResponse IN
       cli' = CASE m.type = "eof" ->
                     [cli EXCEPT !.pc = "done", !.result = ExecuteReturn(cli.exit_code)]
                [] m.type = "err" ->
                     [cli EXCEPT !.pc = "done", !.result = Err("read")]
                [] m.type = "Output" ->
                     [cli EXCEPT !.pos = @ + 1,
                                 !.called = Append(@, << "on_output", m.line >>)]
                [] m.type = "Error" ->
                     [cli EXCEPT !.pos = @ + 1,
                                 !.called = Append(@, << "on_error", m.line >>)]
                [] m.type = "Completed" ->
                     [cli EXCEPT !.pos = @ + 1, !.pc = "done",
                                 !.exit_code = << m.exit_code >>,
                                 !.result = ExecuteReturn(<< m.exit_code >>)]
                [] m.type = "ErrorMessage" ->
                     [cli EXCEPT !.pos = @ + 1, !.pc = "done",
                                 !.result = Err("Daemon error")]
                [] OTHER -> [cli EXCEPT !.pos = @ + 1]
    /\ UNCHANGED << waited, startVars, wire, mainVars >>

\* Client::shutdown up to its read: write_message(Shutdown)?.
CallShutdown ==
    /\ cli.op = "none"
    /\ \E write_ok \in BOOLEAN, ending \in {"eof", "err"}, msgs \in Streams :
        /\ ~write_ok => msgs = << >> /\ ending = "eof"
        /\ cli' = IF write_ok
                  THEN [cli EXCEPT !.op = "shutdown", !.pc = "reading",
                                   !.sent = << ShutdownRequest >>,
                                   !.given = [msgs |-> msgs, ending |-> ending]]
                  ELSE [cli EXCEPT !.op = "shutdown", !.pc = "done",
                                   !.result = Err("write")]
    /\ UNCHANGED << waited, startVars, wire, mainVars >>

ShutdownRead ==
    /\ cli.op = "shutdown" /\ cli.pc = "reading"
    /\ cli' = [cli EXCEPT !.pc = "done", !.result = ShutdownOutcome(NextResponse),
                          !.pos = IF NextResponse.type \in {"eof", "err"} THEN @ ELSE @ + 1]
    /\ UNCHANGED << waited, startVars, wire, mainVars >>

\* main of the CLI up to the loop of execute: exit(1) when no daemon runs
\* or the connection fails; the request carries the inherited environment
\* followed by the --env entries.
MainStart ==
    /\ cli.op = "none"
    /\ \E running, connected, write_ok \in BOOLEAN,
          inherited \in InheritedEnvs, explicit \in ExplicitEnvs,
          ending \in {"eof", "err"}, msgs \in Streams :
        /\ ~(running /\ connected /\ write_ok) => msgs = << >> /\ ending = "eof"
        /\ cli' = IF running /\ connected
                  THEN Execute([cli EXCEPT !.op = "main", !.link = "connected"],
                               RequestEnv(inherited, explicit), msgs, ending, write_ok)
                  ELSE [cli EXCEPT !.op = "main", !.pc = "exited",
                                   !.link = IF running THEN "no_connection"
                                            ELSE "no_daemon",
                                   !.status = ExitStatus(1)]
    /\ UNCHANGED << waited, startVars, wire, mainVars >>

\* main after execute: exit(exit_code), or exit(1) on Err.
MainExit ==
    /\ cli.op = "main" /\ cli.pc = "done"
    /\ cli' = [cli EXCEPT !.pc = "exited",
                          !.status = IF cli.result.kind = "Ok"
                                     THEN ExitStatus(cli.result.code)
                                     ELSE ExitStatus(1)]
    /\ UNCHANGED << waited, startVars, wire, mainVars >>

\* The daemon serves the request the CLI wrote: the child it forks execs
\* the program.
RemoteExec ==
    /\ cli.op = "main" /\ cli.sent # << >> /\ cli.child_env = << >>
    /\ cli' = [cli EXCEPT !.child_env = << ChildEnv(DaemonEnv, cli.sent[1]) >>]
    /\ UNCHANGED << waited, startVars, wire, mainVars >>

CliNext ==
    \/ CallExecute
    \/ ExecuteRead
    \/ CallShutdown
    \/ ShutdownRead
    \/ MainStart
    \/ MainExit
    \/ RemoteExec

CliSpec == Init /\ [][CliNext]_vars

\* ------------------------------------------------------------------ the wire
\* One command from the select! of read_pty_output to the Completed of
\* execute_command, with write_all taking a frame to the socket in up to
\* FrameParts pieces: a write that finds the socket's buffer full is
\* pending, and the task that awaits it keeps the writer's lock meanwhile.

\* Pieces from..to of a frame.
Pieces(frame, from, to) == [i \in 1..(to - from + 1) |-> << frame, from + i - 1 >>]

\* Blocking reader: read_line returns a line; tx.send(Ok(line)).
WireReaderLine ==
    /\ wire.reader = "running" /\ wire.lines < MaxWireLines
    /\ wire.pc = "select"
    /\ wire' = [wire EXCEPT !.lines = @ + 1, !.queue = Append(@, wire.lines + 1)]
    /\ UNCHANGED << waited, startVars, cli, mainVars >>

\* Blocking reader: read_line returns Ok(0) or an error; the closure ends.
WireReaderEnd ==
    /\ wire.reader = "running"
    /\ wire' = [wire EXCEPT !.reader = "gone"]
    /\ UNCHANGED << waited, startVars, cli, mainVars >>

\* output_task: rx.recv() yields a line; writer_output.lock().await, then
\* write_all writes upto pieces of the Output frame: all of them, and the
\* guard is dropped, or fewer, and the write is pending.
WireForwardBegin(upto) ==
    /\ wire.pc = "select" /\ wire.fwd = "idle" /\ wire.queue # << >>
    /\ wire.lock = "free"
    /\ LET line == Head(wire.queue) IN
       wire' = [wire EXCEPT
                  !.queue = Tail(@),
                  !.bytes = @ \o Pieces(<< "Output", line >>, 1, upto),
                  !.fwd = IF upto = FrameParts THEN "idle" ELSE "writing",
                  !.lock = IF upto = FrameParts THEN "free" ELSE "fwd",
                  !.line = IF upto = FrameParts THEN 0 ELSE line,
                  !.part = IF upto = FrameParts THEN 0 ELSE upto]
    /\ UNCHANGED << waited, startVars, cli, mainVars >>

\* output_task: the socket is writable again and the pending write_all
\* goes on, up to piece upto.
WireForwardResume(upto) ==
    /\ wire.pc = "select" /\ wire.fwd = "writing" /\ upto > wire.part
    /\ wire' = [wire EXCEPT
                  !.bytes = @ \o Pieces(<< "Output", wire.line >>, wire.part + 1, upto),
                  !.fwd = IF upto = FrameParts THEN "idle" ELSE "writing",
                  !.lock = IF upto = FrameParts THEN "free" ELSE "fwd",
                  !.line = IF upto = FrameParts THEN 0 ELSE @,
                  !.part = IF upto = FrameParts THEN 0 ELSE upto]
    /\ UNCHANGED << waited, startVars, cli, mainVars >>

\* output_task: rx.recv() yields None, or Some(Err(e)): the task ends.
WireForwardEnd ==
    /\ wire.pc = "select" /\ wire.fwd = "idle"
    /\ wire.queue = << >> /\ wire.reader = "gone"
    /\ wire' = [wire EXCEPT !.fwd = "done"]
    /\ UNCHANGED << waited, startVars, cli, mainVars >>

\* select! returns: the forwarding task is dropped where it stands, its
\* receiver and, if it is inside write_all, its lock guard with it; what
\* write_all has already written stays written.
WireDropped(w) ==
    [w EXCEPT !.pc = "wait", !.fwd = "gone", !.queue = << >>, !.lock = "free",
              !.line = 0, !.part = 0]

\* tokio::select! { _ = read_handle => {}, _ = output_task => {} }
WireSelectDone ==
    /\ wire.pc = "select"
    /\ wire.reader = "gone" \/ wire.fwd = "done"
    /\ wire' = WireDropped(wire)
    /\ UNCHANGED << waited, startVars, cli, mainVars >>

\* The waitpid closure returns; read_pty_output returns Ok(exit_code).
WireWaited ==
    /\ wire.pc = "wait"
    /\ wire' = [wire EXCEPT !.pc = "completing"]
    /\ UNCHANGED << waited, startVars, cli, mainVars >>

\* send_message(Completed): writer.lock().await, then write_all, which
\* writes up to piece upto of the frame in this poll.
WireComplete(upto) ==
    /\ wire.pc = "completing" /\ upto > wire.done
    /\ wire.lock \in {"free", "handler"}
    /\ wire' = [wire EXCEPT
                  !.bytes = @ \o Pieces(<< "Completed", 0 >>, wire.done + 1, upto),
                  !.done = upto,
                  !.lock = IF upto = FrameParts THEN "free" ELSE "handler",
                  !.pc = IF upto = FrameParts THEN "returned" ELSE "completing"]
    /\ UNCHANGED << waited, startVars, cli, mainVars >>

WireNext ==
    \/ WireReaderLine
    \/ WireReaderEnd
    \/ \E upto \in 0..FrameParts : WireForwardBegin(upto)
    \/ \E upto \in 1..FrameParts : WireForwardResume(upto)
    \/ WireForwardEnd
    \/ WireSelectDone
    \/ WireWaited
    \/ \E upto \in 1..FrameParts : WireComplete(upto)

WireSpec == Init /\ [][WireNext]_vars

\* ------------------------------------------------------------------ properties
Last(q) == q[Len(q)]
IsCmdFrame(m) == m.type \in {"Output", "Completed"}

\* C1: within one Execute exchange Completed is the last frame: nothing
\* follows it, and every frame of the exchange belongs to the one command
\* the handler is running (no frame of an earlier command strays into it).
C1_CompletedIsLast ==
    \A c \in Conns : \A i \in DOMAIN out[c] :
        LET m == out[c][i] IN
        /\ m.type = "Completed" => i = Len(out[c])
        /\ IsCmdFrame(m) =>
              /\ \A j \in DOMAIN out[c] : IsCmdFrame(out[c][j]) /\ out[c][j].pid = m.pid
              /\ ex[c].pc # "none" => m.type = "Output" /\ m.pid = ex[c].pid

\* An exchange that streamed a line and then completed.
C1_Witness ==
    \E c \in Conns :
        /\ Len(out[c]) >= 2
        /\ out[c][1].type = "Output" /\ Last(out[c]).type = "Completed"

\* C2 (as claimed): once the stream has ended (select! has returned) every
\* line read from the pty has been written as one Output frame, in order.
C2_EveryLineForwarded ==
    \A c \in Conns :
        (cstate[c] = "exec" /\ ex[c].pc = "wait" /\ peerOpen[c]) =>
            out[c] = [i \in 1..ex[c].lines |-> Output(<< ex[c].pid, i >>)]

\* C3 (as claimed): a dispatched Execute whose child has terminated gets its
\* Completed; in particular the daemon does not exit with the handler still
\* inside execute_command.
C3_CompletedBeforeExit ==
    \A c \in Conns :
        ~ ( /\ mainPc = "exited"
            /\ cstate[c] = "aborted"
            /\ child[ex[c].pid].state = "exited"
            /\ \A i \in DOMAIN out[c] : out[c][i].type # "Completed" )

\* The handler of c reads the line waiting in its inbox in this step.
ReadStep(c) == Reads(c) /\ inbox'[c] = None /\ cstate'[c] \in {"await", "exec", "closed"}

\* This step writes to connection c without starting a new exchange.
WriteStep(c) == out'[c] # out[c] /\ ~ReadStep(c)

\* C4 (as claimed): a Ping read on a connection is answered with exactly one
\* Pong, in every daemon state.
C4_PingAlwaysPong ==
    [][\A c \in Conns :
          (ReadStep(c) /\ Decode(inbox[c]) = "Ping" /\ peerOpen[c])
              => out'[c] = << Pong >>]_vars

\* C4 (amended): a Ping read while the shutdown flag is clear and the
\* monitored parent, if any, is running is answered with exactly one Pong,
\* the handler goes back to awaiting a line, and nothing else is written to
\* the connection until it reads the next line.
C4_PingYieldsPong ==
    [][\A c \in Conns :
          /\ (ReadStep(c) /\ Decode(inbox[c]) = "Ping" /\ peerOpen[c]
                /\ ~shutdown /\ (parent_pid # None => parentAlive))
              => /\ out'[c] = << Pong >>
                 /\ cstate'[c] = "await"
                 /\ UNCHANGED << shutdown, ex, child >>
          /\ (out[c] = << Pong >>) => ~WriteStep(c)]_vars

\* A Ping was answered and its handler awaits the next line.
C4_Witness == \E c \in Conns : out[c] = << Pong >> /\ cstate[c] = "await"

AcceptStep(c)  == cstate[c] = "pending" /\ cstate'[c] = "await"
ConnectStep(c) == cstate[c] = "idle" /\ cstate'[c] = "pending"

\* C5 (as claimed): once a ShutdownAck has been written to a connection, no
\* client connects and no connection is accepted.
C5_NoConnectionAfterAck ==
    [][(\E c \in Conns : out[c] = << ShutdownAck >>)
            => \A d \in Conns : ~AcceptStep(d) /\ ~ConnectStep(d)]_vars

\* C5 (amended): a Shutdown read while the flag is clear and the parent, if
\* monitored, is running is answered with exactly one ShutdownAck and sets
\* the flag, which stays set; with the flag set, the accept loop leaves at
\* its next check, so it accepts at most the connection its pending select!
\* picks up; once it has left, no client connects and none is accepted.
C5_ShutdownAckThenClosed ==
    [][/\ \A c \in Conns :
            (ReadStep(c) /\ Decode(inbox[c]) = "Shutdown" /\ peerOpen[c]
                /\ ~shutdown /\ (parent_pid # None => parentAlive))
                => /\ out'[c] = << ShutdownAck >>
                   /\ shutdown'
                   /\ cstate'[c] = "closed"
       /\ \A c \in Conns : (out[c] = << ShutdownAck >>) => shutdown /\ ~WriteStep(c)
       /\ shutdown => shutdown'
       /\ (shutdown /\ \E d \in Conns : AcceptStep(d)) => mainPc' = "returned"
       /\ mainPc # "select"
            => /\ mainPc' # "select"
               /\ ~socketFile
               /\ \A d \in Conns : ~AcceptStep(d) /\ ~ConnectStep(d)]_vars

\* A ShutdownAck was written, a connection was still accepted after it, and
\* the accept loop has left and removed the socket file.
C5_Witness ==
    \E c, d \in Conns :
        /\ out[c] = << ShutdownAck >> /\ cstate[d] = "await"
        /\ mainPc = "returned" /\ ~socketFile

\* C6 (as claimed): a line that does not decode is answered with exactly one
\* ErrorMessage, starts no process and leaves the connection open.
C6_MalformedAlwaysAnswered ==
    [][\A c \in Conns :
          (ReadStep(c) /\ Decode(inbox[c]) = "ParseError" /\ peerOpen[c])
              => /\ Len(out'[c]) = 1 /\ out'[c][1].type = "ErrorMessage"
                 /\ cstate'[c] = "await"
                 /\ UNCHANGED child]_vars

\* C6 (amended): a line that does not decode, read while the flag is clear
\* and the parent, if monitored, is running, is answered with exactly one
\* ErrorMessage, starts no process and leaves the handler as it was,
\* awaiting the next line, so that the next line is handled as any other.
C6_MalformedYieldsError ==
    [][\A c \in Conns :
          /\ (ReadStep(c) /\ Decode(inbox[c]) = "ParseError" /\ peerOpen[c]
                /\ ~shutdown /\ (parent_pid # None => parentAlive))
              => /\ out'[c] = << ErrorMessage("Failed to parse message") >>
                 /\ cstate'[c] = "await"
                 /\ UNCHANGED << shutdown, ex, child, nextPid >>
          /\ (Len(out[c]) = 1 /\ out[c][1].type = "ErrorMessage") => ~WriteStep(c)]_vars

\* The parse error was reported and the connection awaits its next line,
\* which the client has already sent.
C6_Witness ==
    \E c \in Conns :
        /\ out[c] = << ErrorMessage("Failed to parse message") >>
        /\ cstate[c] = "await" /\ inbox[c] = "\"Ping\""

\* C8: every Output and Completed frame written to a connection comes from
\* the child that this connection's handler forked.
C8_OwnFramesOnly ==
    \A c \in Conns : \A i \in DOMAIN out[c] :
        IsCmdFrame(out[c][i]) => child[out[c][i].pid].conn = c

\* Two connections run a command each at the same time, and each has
\* received output.
C8_Witness ==
    /\ cstate[1] = "exec" /\ cstate[2] = "exec"
    /\ out[1] # << >> /\ out[2] # << >>

\* C10 (as claimed): a line read after the monitored parent has died is not
\* executed and is answered with an ErrorMessage, whether or not the flag is
\* already set.
C10_RejectedWithError ==
    [][\A c \in Conns :
          (ReadStep(c) /\ parent_pid # None /\ ~parentAlive /\ peerOpen[c])
              => /\ Len(out'[c]) = 1 /\ out'[c][1].type = "ErrorMessage"
                 /\ UNCHANGED child]_vars

\* C7: when a parent pid was supplied and that process has died, the daemon
\* eventually has set the flag, left the accept loop (its listener is gone)
\* and removed its socket file.
C7_ParentDeathStopsDaemon ==
    (parent_pid # None /\ ~parentAlive)
        ~> (shutdown /\ mainPc # "select" /\ ~socketFile)

\* The parent died and the daemon went down without any client ever
\* having connected.
C7_Witness ==
    /\ parent_pid # None /\ ~parentAlive
    /\ shutdown /\ mainPc = "returned" /\ ~socketFile
    /\ \A c \in Conns : cstate[c] = "idle"

\* The exit code the claim gives for a wait.
ClaimedExitCode(w) ==
    IF ~w.joined \/ w.result # w.pid THEN -1
    ELSE CASE w.fate.kind = "exit"   -> w.fate.n
           [] w.fate.kind = "signal" -> 128 + w.fate.n
           [] OTHER                  -> -1

\* C9: the exit code is the child's exit code after a normal exit, 128 + N
\* after death by signal N (137 for SIGKILL), and -1 when the status is
\* neither, when waitpid did not return the pid, or when the waiting task
\* failed.
C9_ExitCodeTranslation ==
    waited # NoWait =>
        /\ waited.exit_code = ClaimedExitCode(waited)
        /\ (waited.joined /\ waited.result = waited.pid
              /\ waited.fate.kind = "signal" /\ waited.fate.n = 9)
            => waited.exit_code = 137

\* A child killed by SIGKILL was waited for.
C9_Witness ==
    /\ waited # NoWait /\ waited.joined /\ waited.result = waited.pid
    /\ waited.fate = Fate("signal", 9, FALSE) /\ waited.exit_code = 137

\* C12: once the shutdown flag is set (by a Shutdown message, SIGTERM or
\* SIGINT) the daemon eventually has left the accept loop with the socket
\* file removed; a step that sets the flag without reading a client line
\* (a signal) writes nothing to any connection, and a ShutdownAck is only
\* ever written by the handler that read a Shutdown line.
C12_FlagStopsDaemon ==
    /\ shutdown ~> (mainPc # "select" /\ ~socketFile)
    /\ [][/\ (~shutdown /\ shutdown' /\ \A c \in Conns : ~ReadStep(c))
                => UNCHANGED out
          /\ \A c \in Conns :
                (out'[c] # out[c] /\ out'[c] = << ShutdownAck >>)
                    => ReadStep(c) /\ Decode(inbox[c]) = "Shutdown"]_vars

\* No parent is monitored, a client is connected and its handler awaits a
\* line, nothing was written to any connection, and the daemon has shut
\* down and removed its socket file: a signal did it.
C12_Witness ==
    /\ parent_pid = None /\ shutdown /\ mainPc = "returned" /\ ~socketFile
    /\ \E c \in Conns : cstate[c] = "await" /\ peerOpen[c]
    /\ \A c \in Conns : out[c] = << >> /\ inbox[c] = None

\* C20 (as claimed): when the pty fork fails for an Execute (the line is
\* dispatched and no child is forked), exactly one ErrorMessage is written
\* to the requesting connection, and nothing else changes but that
\* connection.
C20_ForkFailureReported ==
    [][\A c \in Conns :
          (ReadStep(c) /\ Decode(inbox[c]) = "Execute" /\ peerOpen[c]
              /\ ~shutdown /\ (parent_pid # None => parentAlive)
              /\ child' = child)
              => /\ Len(out'[c]) = 1 /\ out'[c][1].type = "ErrorMessage"
                 /\ UNCHANGED << shutdown, mainPc, socketFile >>
                 /\ \A d \in Conns \ {c} : cstate'[d] = cstate[d] /\ out'[d] = out[d]]_vars

\* Client::execute has been called on connection c: its Execute line is on
\* the wire or being served, and the client holds the stream.
Called(c) ==
    /\ peerOpen[c]
    /\ \/ cstate[c] \in {"pending", "await"} /\ Decode(inbox[c]) = "Execute"
       \/ cstate[c] = "exec"

\* The command of c is being served and its child still runs.
ChildRuns(c) == cstate[c] = "exec" /\ child[ex[c].pid].state = "running"

\* What ends the read loop of Client::execute: Completed was written, or
\* the stream was closed under the client; or the client let go itself.
Returned(c) ==
    \/ ~peerOpen[c]
    \/ cstate[c] \in {"closed", "killed", "aborted"}
    \/ /\ cstate[c] = "await" /\ Decode(inbox[c]) # "Execute"
       /\ out[c] # << >> /\ Last(out[c]).type = "Completed"

C11_AtMostOneLive ==
    Cardinality({d \in Daemons : inst[d].pc = "listening"}) <= 1

\* C13 (as claimed): the mode follows from three cases: no effective uid,
\* 0600; an effective uid whose group resolves, group changed and 0660; an
\* effective uid whose group does not resolve, 0666.
C13_ThreeModes ==
    \A d \in Daemons :
        inst[d].pc = "listening" =>
            IF inst[d].euid = None THEN inst[d].mode = Mode0600
            ELSE IF inst[d].pw = "resolved"
                 THEN inst[d].mode = Mode0660 /\ inst[d].chown = "ok"
                 ELSE inst[d].mode = Mode0666

\* C13 (amended): a daemon that got past set_socket_permissions has set
\* 0600 without an effective uid; 0660 with one whose passwd entry resolved
\* and whose chown to its group succeeded; 0666 with one whose passwd entry
\* did not resolve or whose chown failed. A daemon that did not get past it
\* (set_permissions failed) has set no mode, and the file never carries
\* another mode than these or the one bind gave it.
C13_ModeByCase ==
    /\ \A d \in Daemons :
          IF inst[d].pc \in {"listening", "returned"}
             \/ (inst[d].pc = "killed" /\ inst[d].mode # 0)
          THEN \/ inst[d].euid = None /\ inst[d].mode = Mode0600
               \/ /\ inst[d].euid # None /\ inst[d].pw = "resolved"
                  /\ inst[d].chown = "ok" /\ inst[d].mode = Mode0660
               \/ /\ inst[d].euid # None
                  /\ inst[d].pw = "null" \/ inst[d].chown = "failed"
                  /\ inst[d].mode = Mode0666
          ELSE inst[d].mode = 0
    /\ sock.mode \in {0, Mode0600, Mode0660, Mode0666}
    /\ sock.group = "user" => \E d \in Daemons : inst[d].chown = "ok"

\* A daemon started with an effective uid is listening on its own socket
\* file, which has the user's group and mode 0660.
C13_Witness ==
    \E d \in Daemons :
        /\ inst[d].pc = "listening" /\ inst[d].euid # None
        /\ sock = [owner |-> d, mode |-> Mode0660, group |-> "user", dir |-> TRUE]

\* start_daemon has returned.
SupDone == sup.pc \notin {"idle", "poll"}

\* C16 (as claimed): start_daemon returns Ok without launching when a
\* daemon is reachable; otherwise it launches the helper once and ends in
\* one of three outcomes: Ok, helper exited, timeout.
C16_ThreeOutcomes ==
    SupDone =>
        IF sup.running THEN sup.pc = "ok" /\ sup.helper = 0
        ELSE sup.pc \in {"ok", "helper_exited", "timeout"} /\ sup.helper # 0

\* C16 (amended): start_daemon returns Ok without launching when
\* is_daemon_running() answers true. Otherwise it spawns the helper once; if the spawn fails it
\* returns that error with nothing launched; if not, each turn of its loop
\* ends it with Ok when the socket file exists, else with 'helper exited'
\* when the helper's process is gone, else with the timeout error when the
\* time is up, and else sleeps and polls again. Once it has returned, its
\* outcome stands and it launches nothing more.
C16_StartOutcomes ==
    [][/\ (sup.pc = "idle" /\ sup' # sup) =>
            IF sup'.running
            THEN sup'.pc = "ok" /\ sup'.helper = 0 /\ UNCHANGED inst
            ELSE \/ sup'.pc = "spawn_failed" /\ sup'.helper = 0 /\ UNCHANGED inst
                 \/ /\ sup'.pc = "poll" /\ sup'.helper \in Daemons
                    /\ inst[sup'.helper].pc = "off"
                    /\ inst'[sup'.helper].pc = "pkexec"
                    /\ \A d \in Daemons \ {sup'.helper} : inst'[d] = inst[d]
       /\ (sup.pc = "poll" /\ sup' # sup) =>
            /\ sup'.pc = IF sock.owner # 0 THEN "ok"
                         ELSE IF inst[sup.helper].pc \in {"failed", "returned", "killed"}
                              THEN "helper_exited"
                         ELSE IF sup.polls >= PollLimit THEN "timeout"
                         ELSE "poll"
            /\ sup'.helper = sup.helper /\ sup'.running = sup.running
            /\ UNCHANGED << inst, sock >>
       /\ SupDone => sup' = sup
       /\ \A d \in Daemons :
            (inst[d].pc = "off" /\ inst'[d].pc = "pkexec") => sup.pc = "idle"]_vars

\* start_daemon spawned the helper, the user authenticated, the daemon
\* bound its socket, and start_daemon saw the file and returned Ok.
C16_Witness ==
    /\ sup.pc = "ok" /\ sup.helper # 0
    /\ inst[sup.helper].pc \in {"perms", "listening"} /\ sock.owner = sup.helper

\* The position in a stream of the first Completed or ErrorMessage, or 0.
Decisive(msgs) ==
    LET here == {i \in 1..Len(msgs) : msgs[i].type \in {"Completed", "ErrorMessage"}}
    IN  IF here = {} THEN 0 ELSE CHOOSE i \in here : \A j \in here : i <= j

\* The callbacks a stream asks for: one per Output and per Error that
\* arrives before the decisive message, in arrival order.
Callbacks(msgs) ==
    LET upto == IF Decisive(msgs) = 0 THEN Len(msgs) ELSE Decisive(msgs) - 1
        lines == SelectSeq(SubSeq(msgs, 1, upto),
                           LAMBDA m : m.type \in {"Output", "Error"})
    IN  [i \in 1..Len(lines) |->
            << IF lines[i].type = "Output" THEN "on_output" ELSE "on_error",
               lines[i].line >>]

\* C14: Client::execute writes one Execute; whatever responses follow, when
\* it returns it has called on_output once per Output and on_error once per
\* Error in arrival order, and it returns Ok(code) of the first Completed,
\* an error at the first ErrorMessage, and Ok(-1) when the stream ends
\* cleanly with no Completed.
C14_ExecuteContract ==
    cli.op = "execute" =>
        /\ Len(cli.sent) <= 1
        /\ cli.pc = "reading" => cli.sent = << ExecuteRequest(<< >>) >>
        /\ cli.pc = "done" /\ cli.sent # << >> =>
              LET msgs == cli.given.msgs
                  d == Decisive(msgs)
              IN  /\ cli.sent = << ExecuteRequest(<< >>) >>
                  /\ cli.called = Callbacks(msgs)
                  /\ d # 0 /\ msgs[d].type = "Completed" =>
                        cli.result = Ok(msgs[d].exit_code)
                  /\ d # 0 /\ msgs[d].type = "ErrorMessage" =>
                        cli.result.kind = "Err"
                  /\ d = 0 /\ cli.given.ending = "eof" => cli.result = Ok(-1)

\* execute returned Ok(137) after an Output, an Error and the Completed.
C14_Witness ==
    /\ cli.op = "execute" /\ cli.pc = "done" /\ cli.result = Ok(137)
    /\ cli.called = << << "on_output", 1 >>, << "on_error", 1 >> >>

\* execute returned the sentinel: the stream ended cleanly after a Pong and
\* an Output, with no Completed.
C14_SentinelWitness ==
    /\ cli.op = "execute" /\ cli.pc = "done" /\ cli.result = Ok(-1)
    /\ cli.given.msgs = << Pong, Output(<< 1, 2 >>) >>

\* C15: Client::shutdown writes one Shutdown and returns success exactly
\* when the first response it reads is ShutdownAck; any other first
\* response, and a stream that ends before a response, give an error; it
\* reads no second response.
C15_ShutdownContract ==
    cli.op = "shutdown" =>
        /\ Len(cli.sent) <= 1 /\ cli.pos <= 2
        /\ cli.pc = "reading" => cli.sent = << ShutdownRequest >>
        /\ cli.pc = "done" =>
              /\ cli.result.kind \in {"Ok", "Err"}
              /\ cli.result.kind = "Ok" <=>
                    /\ cli.sent = << ShutdownRequest >>
                    /\ cli.given.msgs # << >>
                    /\ cli.given.msgs[1] = ShutdownAck

\* shutdown succeeded on a ShutdownAck.
C15_Witness ==
    /\ cli.op = "shutdown" /\ cli.pc = "done" /\ cli.result.kind = "Ok"
    /\ cli.given.msgs[1] = ShutdownAck

\* shutdown failed on a Pong, and failed on a stream closed at once.
C15_OtherReplyWitness ==
    /\ cli.op = "shutdown" /\ cli.pc = "done" /\ cli.result.kind = "Err"
    /\ cli.sent = << ShutdownRequest >>
    /\ cli.given.msgs # << >> /\ cli.given.msgs[1] = Pong

\* An environment with a list of KEY=VALUE entries applied in order.
RECURSIVE MergedEnv(_, _)
MergedEnv(env, entries) ==
    IF entries = << >> THEN env
    ELSE MergedEnv([env EXCEPT ![Head(entries)[1]] = Head(entries)[2]], Tail(entries))

\* C18: the child started for the CLI's Execute has the inherited
\* environment with the request's entries applied on top, a later entry
\* for a key overriding an earlier one.
C18_ChildEnvIsMerged ==
    cli.child_env # << >> =>
        cli.child_env[1] = MergedEnv(DaemonEnv, cli.sent[1].env)

\* C19 as stated: the exit status of the CLI process is the code of the
\* Completed message, and 1 when no daemon runs or the connection fails.
C19_ExitEqualsCompleted ==
    cli.op = "main" /\ cli.pc = "exited" =>
        LET d == Decisive(cli.given.msgs) IN
        /\ cli.link # "connected" => cli.status = 1
        /\ cli.sent # << >> /\ d # 0 /\ cli.given.msgs[d].type = "Completed" =>
              cli.status = cli.given.msgs[d].exit_code

\* C19: the exit status of the CLI process is the code of the first
\* Completed message when that is in 0..255 and 255 when it is -1; it is 1
\* when no daemon runs, the connection fails, the request cannot be
\* written, the daemon answers ErrorMessage or a read fails; it is 255
\* when the stream ends cleanly with no Completed.
C19_ExitStatus ==
    cli.op = "main" /\ cli.pc = "exited" =>
        LET msgs == cli.given.msgs
            d == Decisive(msgs)
        IN  cli.status =
              CASE cli.link # "connected" -> 1
                [] cli.sent = << >> -> 1
                [] d # 0 /\ msgs[d].type = "Completed" ->
                     IF msgs[d].exit_code \in 0..255 THEN msgs[d].exit_code ELSE 255
                [] d # 0 /\ msgs[d].type = "ErrorMessage" -> 1
                [] d = 0 /\ cli.given.ending = "eof" -> 255
                [] OTHER -> 1

\* The CLI exited with 255 after the daemon reported -1.
C19_Witness ==
    /\ cli.op = "main" /\ cli.pc = "exited" /\ cli.status = 255
    /\ cli.given.msgs = << Output(<< 1, 1 >>), Completed(1, -1) >>

\* C21 (as claimed): whenever a handler decodes a Shutdown line, the
\* shutdown flag is set and the connection is closed without another line
\* being handled, whether or not the ShutdownAck could be written.
C21_ShutdownAlwaysSetsFlag ==
    [][\A c \in Conns :
          (Dispatches(c) /\ Decode(inbox[c]) = "Shutdown" /\ ReadStep(c))
              => shutdown' /\ cstate'[c] = "closed"]_vars

\* C22: once the shutdown flag is set it stays set and no new work is
\* taken: a line read with the flag set is not dispatched (no child is
\* forked, nothing is written, the connection is closed); an accept that
\* completes with the flag set is the last one, the loop leaving at the
\* flag check that follows it, and no connection is accepted once the loop
\* has left. No step of the daemon ends a running child: a child stops
\* running only by terminating itself, in a step that changes nothing of
\* the daemon or of its connections.
C22_NoNewWorkAfterFlag ==
    [][/\ shutdown => shutdown'
       /\ \A c \in Conns :
            (shutdown /\ ReadStep(c))
                => /\ child' = child /\ nextPid' = nextPid /\ ex' = ex
                   /\ out'[c] = << >> /\ cstate'[c] = "closed"
       /\ (shutdown /\ \E d \in Conns : AcceptStep(d)) => mainPc' = "returned"
       /\ mainPc # "select" => \A d \in Conns : ~AcceptStep(d)
       /\ \A p \in Pids :
            (child[p].state = "running" /\ child'[p].state # "running")
                => /\ child'[p].state = "exited"
                   /\ UNCHANGED << daemonVars, connVars >>]_vars

\* With the flag set and the accept loop left, one connection still runs
\* its child, every line sent has been read, no second child was forked
\* and the other connection is closed with nothing written to it.
C22_Witness ==
    \E c, d \in Conns :
        /\ shutdown /\ mainPc = "returned"
        /\ ChildRuns(d)
        /\ cstate[c] = "closed" /\ peerOpen[c] /\ inbox[c] = None
        /\ out[c] = << >> /\ sends = 2 /\ inbox[d] = None /\ nextPid = 2

\* C23 (as claimed): a daemon process fails only at the root check or at
\* the bind (or, launched through the helper, when the helper refuses to
\* run it at all): no other step of run_daemon ends it with an error.
C23_OnlyRootAndBindFatal ==
    [][\A d \in Daemons :
          (inst[d].pc # "failed" /\ inst'[d].pc = "failed")
              => inst[d].pc \in {"off", "pkexec", "bind"}]_vars

\* C28: a daemon started without root fails in the very step that enters
\* run_daemon and stays failed: that step leaves the socket path as it was
\* (no file removed, no directory created, no socket bound), and such a
\* daemon never owns the socket file nor reaches its accept loop, before
\* which the monitor and the signal task are spawned.
C28_NoRootNoEffect ==
    /\ [](\A d \in Daemons :
            (inst[d].pc # "off" /\ ~inst[d].root)
                => inst[d].pc = "failed" /\ sock.owner # d)
    /\ [][\A d \in Daemons :
            /\ (inst[d].pc = "off" /\ inst'[d].pc # "off" /\ ~inst'[d].root)
                  => sock' = sock
            /\ (inst[d].pc = "failed" /\ ~inst[d].root)
                  => inst'[d] = inst[d]]_vars

\* A daemon started without root has failed next to the socket file of
\* another daemon, which is still there and still that daemon's.
C28_Witness ==
    \E d, e \in Daemons :
        /\ inst[d].pc = "failed" /\ ~inst[d].root
        /\ inst[e].pc = "listening" /\ sock.owner = e /\ sock.dir

\* C29 (as claimed): a daemon that leaves its accept loop removes the
\* socket file only if it is the file that this daemon bound; a file bound
\* by another, later daemon stays.
C29_RemovesOwnFileOnly ==
    [][\A d \in Daemons :
          (inst[d].pc = "listening" /\ inst'[d].pc = "returned"
              /\ sock.owner # 0 /\ sock.owner # d)
              => sock' = sock]_vars

\* C30 (as claimed): when the polling loop of start_daemon returns Ok, some
\* daemon process is running with the socket file at the path bound by it.
C30_OkMeansListening ==
    [][(sup.pc = "poll" /\ sup'.pc = "ok")
          => \E d \in Daemons :
                inst[d].pc \in {"perms", "listening"} /\ sock.owner = d]_vars

\* Client::execute reads a message in this step.
ExecuteReadsMessage ==
    /\ cli.op \in {"execute", "main"} /\ cli.pc = "reading"
    /\ cli'.pos = cli.pos + 1

\* C26 (as claimed): Client::execute stops reading at the first Completed,
\* ShutdownAck, Pong or ErrorMessage it receives.
C26_StopsAtTerminal ==
    [][(ExecuteReadsMessage
          /\ NextResponse.type \in {"Completed", "ShutdownAck", "Pong", "ErrorMessage"})
            => cli'.pc = "done"]_vars

\* C26 (amended): Client::execute writes one request and stops reading at
\* the first Completed or ErrorMessage, at the end of the stream and at a
\* failed read; a Pong or a ShutdownAck is skipped (no callback, no result)
\* and the next message is read; once it has stopped it reads no further
\* message.
C26_StopsAtCompletedOrError ==
    [][/\ ExecuteReadsMessage
            => /\ cli'.pc = "done" <=> NextResponse.type \in {"Completed", "ErrorMessage"}
               /\ NextResponse.type \in {"Pong", "ShutdownAck"}
                    => /\ cli'.pc = "reading" /\ cli'.called = cli.called
                       /\ cli'.result = NoResult
       /\ (cli.op \in {"execute", "main"} /\ cli.pc = "reading"
             /\ NextResponse.type \in {"eof", "err"} /\ cli'.pc # "reading")
            => cli'.pc = "done" /\ cli'.pos = cli.pos
       /\ (cli.op \in {"execute", "main"} /\ cli.pc \in {"done", "exited"})
            => cli'.pos = cli.pos
       /\ Len(cli'.sent) <= 1]_vars

\* execute skipped a Pong, returned on Completed and left the Output that
\* followed it unread.
C26_Witness ==
    /\ cli.op = "execute" /\ cli.pc = "done" /\ cli.result = Ok(0)
    /\ cli.given.msgs = << Pong, Completed(1, 0), Output(<< 1, 1 >>) >>
    /\ cli.pos = 3 /\ cli.called = << >>

\* The children forked by the handler of c and not reaped.
Unreaped(c) ==
    {p \in Pids : child[p].conn = c /\ child[p].state \in {"running", "exited"}}

\* C27 (as claimed): a handler that awaits or dispatches its next line has
\* no child left that is not reaped, so a connection never has two
\* children in flight.
C27_ReapedBeforeNextLine ==
    \A c \in Conns :
        /\ cstate[c] = "await" => Unreaped(c) = {}
        /\ Cardinality(Unreaped(c)) <= 1

\* C27 (amended): a handler serves one child at a time and takes no line
\* while it does: it goes back to awaiting a line only from the wait that
\* follows the select!, with the child's output at its end, the child
\* terminated and Completed for that child written last; when the code in
\* Completed is not -1 the child has been reaped by that step. A child is
\* reaped only after it has terminated, only by the wait of the handler
\* that forked it, and never twice; a child whose wait fails is never
\* reaped. No connection has two running children.
C27_OneChildServed ==
    /\ [](\A c \in Conns :
            /\ Cardinality({p \in Pids : child[p].conn = c
                                          /\ child[p].state = "running"}) <= 1
            /\ cstate[c] = "await"
                 => \A p \in Pids : child[p].conn = c => child[p].state # "running")
    /\ [][/\ \A c \in Conns :
              /\ ReadStep(c) => ex[c].pc = "none"
              /\ (cstate[c] = "exec" /\ cstate'[c] = "await")
                    => /\ ex[c].pc = "wait" /\ ex[c].reader = "gone"
                       /\ child[ex[c].pid].state = "exited"
                       /\ Last(out'[c]).type = "Completed"
                       /\ Last(out'[c]).pid = ex[c].pid
                       /\ Last(out'[c]).exit_code # -1
                            => child'[ex[c].pid].state = "reaped"
          /\ \A p \in Pids :
              /\ (child[p].state # "reaped" /\ child'[p].state = "reaped")
                    => /\ child[p].state = "exited"
                       /\ cstate[child[p].conn] = "exec"
                       /\ ex[child[p].conn].pid = p
                       /\ ex[child[p].conn].pc = "wait"
              /\ child[p].state = "reaped" => child'[p] = child[p]]_vars

\* One connection has run two commands one after the other: both children
\* are reaped and the second Completed is written.
C27_Witness ==
    \E c \in Conns :
        /\ \A p \in Pids : child[p].conn = c /\ child[p].state = "reaped"
        /\ cstate[c] = "await" /\ Last(out[c]) = Completed(2, 3)

\* Nothing outside the blocked connection stands in the way of d: the flag
\* is clear, the monitored parent runs and the client of d holds its end.
Unhindered(d) ==
    /\ ~shutdown /\ (parent_pid # None => parentAlive) /\ peerOpen[d]

\* The daemon has something to do for d: d waits in the backlog, a line
\* of d waits to be read, or a command of d whose child has terminated
\* waits to be completed.
Ready(d) ==
    \/ cstate[d] = "pending"
    \/ cstate[d] = "await" /\ inbox[d] # None
    \/ cstate[d] = "exec" /\ ~ChildRuns(d)

\* C24: while the handler of one connection waits for a child that still
\* runs, whatever the daemon has to do for another connection gets done,
\* and is done as it would be without the blocked one: a connection in the
\* backlog is accepted unless the daemon is shutting down; a Ping read is
\* answered with Pong and an Execute read is dispatched, unless the daemon
\* is shutting down, the monitored parent is gone or that client has closed
\* its end; a command whose child has terminated ends with Completed
\* written to its client, unless that client has closed its end or the
\* daemon process exits.
C24_OthersProgress ==
    /\ \A c, d \in Conns :
          c # d => ((ChildRuns(c) /\ Ready(d)) ~> ~Ready(d))
    /\ [][\A c, d \in Conns :
            (c # d /\ ChildRuns(c)) =>
              /\ (cstate[d] = "pending" /\ cstate'[d] # "pending" /\ ~shutdown')
                    => cstate'[d] = "await"
              /\ (ReadStep(d) /\ Unhindered(d) /\ Decode(inbox[d]) = "Ping")
                    => out'[d] = << Pong >> /\ cstate'[d] = "await"
              /\ (ReadStep(d) /\ Unhindered(d) /\ Decode(inbox[d]) = "Execute")
                    => cstate'[d] \in {"exec", "closed"}
              /\ (cstate[d] = "exec" /\ cstate'[d] # "exec"
                    /\ peerOpen[d] /\ mainPc' # "exited")
                    => /\ cstate'[d] = "await"
                       /\ Last(out'[d]).type = "Completed"]_vars

\* Connection 1 is still waiting for its running child, and meanwhile
\* connection 2 has run a command of its own to Completed.
C24_Witness ==
    /\ ChildRuns(1)
    /\ cstate[2] = "await" /\ out[2] # << >> /\ Last(out[2]).type = "Completed"
    /\ child[2].conn = 2 /\ child[2].state = "reaped"

\* C25 (as claimed): every frame reaches the socket whole and unbroken:
\* the first piece on the wire is the first piece of a frame, each piece
\* but the last of a frame is followed, if by anything, by the next piece
\* of that same frame, and the last piece of a frame by the first piece of
\* one; in particular no piece of Completed follows an unfinished Output.
C25_FramesAtomic ==
    \A i \in DOMAIN wire.bytes :
        /\ i = 1 => wire.bytes[i][2] = 1
        /\ i > 1 =>
             IF wire.bytes[i - 1][2] < FrameParts
             THEN wire.bytes[i] = << wire.bytes[i - 1][1], wire.bytes[i - 1][2] + 1 >>
             ELSE wire.bytes[i][2] = 1

====
